---- MODULE Spec2Model ----
(***************************************************************************)
(* Model of the weekly Slack backup (scripts/backup_slack.py), the weekly  *)
(* report generator (scripts/generate_report.py) and the business-day gate *)
(* (scripts/korean_holidays.py).                                           *)
(*                                                                         *)
(* Time is counted in whole days; day 0 is a Monday, so weekday(d) = d % 7 *)
(* as date.weekday() gives it.  A Slack "ts" is the decimal string of the  *)
(* posting time; it is kept as the sequence of its digits, so that the     *)
(* string order the code sorts by (list.sort(key=m["ts"])) and the number  *)
(* float(ts) the code compares with the window are two different things.   *)
(* A reporting window [start, end] is the pair of its first and last day   *)
(* (Friday 00:00:00 .. Thursday 23:59:59).                                 *)
(***************************************************************************)
EXTENDS Integers, Sequences, FiniteSets, TLC

(***************************************************************************)
(* Bounds of the model.                                                    *)
(***************************************************************************)
FirstDay == 9      \* the day the model starts on
LastPostDay == 11  \* nobody posts after this day
MaxDay == 18       \* the clock stops here
MaxPosts == 2      \* messages the channel may hold
MaxRuns == 2       \* runs (backup or report) that may be started
MaxFaults == 1     \* failures the environment may inject
PageLimit == 1     \* records per history page (the code asks for limit=200)

(***************************************************************************)
(* Program constants.                                                      *)
(***************************************************************************)
WideDays == 30     \* timedelta(days=30)
Friday == 4        \* (today.weekday() - 4) % 7
Saturday == 5      \* d.weekday() >= 5

NoCursor == 0      \* cursor = None: "if cursor:" is false

None == <<>>       \* an absent "thread_ts"
NoBot == ""        \* an absent "bot_id"; get_bot_user_id() returning None
SelfBot == "B_SELF"
Bots == {SelfBot}
\* a message's text is the sequence of its characters
Text == <<"t", "e", "x", "t">>
\* what a posted message may be: a user's or this bot's
Variants ==
    {[author |-> "U1", text |-> Text],
     [author |-> SelfBot, text |-> Text]}

\* KOREAN_HOLIDAYS (date -> label), scaled to the model's calendar: day 12 is
\* a Saturday (as 2026-06-06 is), day 15 a Tuesday (as 2026-09-15 is).
KOREAN_HOLIDAYS == (12 :> "memorial-day") @@ (15 :> "chuseok")

VARIABLES
    today,      \* get_today_kst(): the current day
    channel,    \* the messages of the Slack channel
    files,      \* BACKUP_DIR: period key -> artifact, or NoFile
    pc,         \* where the running script is: "idle", "history", "threads",
                \* "collected"
    run,        \* the running script's local variables, or NoRun
    status,     \* how the last run ended
    reports,    \* history: one entry per backup run that saved its artifact
    posted,     \* history: the chat_postMessage calls of the report script
    runs,       \* runs started so far
    faults      \* failures injected so far

vars == <<today, channel, files, pc, run, status, reports, posted, runs, faults>>

(***************************************************************************)
(* Strings of digits.                                                      *)
(***************************************************************************)
RECURSIVE ToStr(_)
\* str(n) of a non-negative whole number: how Slack stamps a message
ToStr(n) == IF n < 10 THEN <<n>> ELSE Append(ToStr(n \div 10), n % 10)

RECURSIVE ToFloat(_)
\* float(ts)
ToFloat(s) ==
    IF Len(s) = 0 THEN 0
    ELSE 10 * ToFloat(SubSeq(s, 1, Len(s) - 1)) + s[Len(s)]

RECURSIVE StrLess(_, _)
\* a < b of two Python strings: character by character, a proper prefix first
StrLess(a, b) ==
    IF a = <<>> THEN b # <<>>
    ELSE IF b = <<>> THEN FALSE
    ELSE IF Head(a) # Head(b) THEN Head(a) < Head(b)
    ELSE StrLess(Tail(a), Tail(b))

\* the characters str.strip() takes off
Whitespace == {" ", "\n", "\t"}

RECURSIVE lstrip(_)
lstrip(s) ==
    IF s # <<>> /\ Head(s) \in Whitespace THEN lstrip(Tail(s)) ELSE s

RECURSIVE rstrip(_)
rstrip(s) ==
    IF s # <<>> /\ s[Len(s)] \in Whitespace
    THEN rstrip(SubSeq(s, 1, Len(s) - 1))
    ELSE s

\* text.strip()
strip(s) == rstrip(lstrip(s))

MinStr(S) == CHOOSE x \in S : \A y \in S \ {x} : StrLess(x, y)

RECURSIVE SortByTs(_)
\* list.sort(key=lambda m: m["ts"]) of records with pairwise different ts
SortByTs(S) ==
    IF S = {} THEN <<>>
    ELSE <<MinStr(S)>> \o SortByTs(S \ {MinStr(S)})

MaxNum(S) == CHOOSE x \in S : \A y \in S \ {x} : ToFloat(y) < ToFloat(x)

RECURSIVE NewestFirst(_)
\* the order in which conversations.history serves the records
NewestFirst(S) ==
    IF S = {} THEN <<>>
    ELSE <<MaxNum(S)>> \o NewestFirst(S \ {MaxNum(S)})

Range(s) == {s[i] : i \in 1..Len(s)}

(***************************************************************************)
(* Calendar.                                                               *)
(***************************************************************************)
weekday(d) == d % 7

\* (is_holiday, holiday_name)
is_korean_holiday(d) ==
    IF d \in DOMAIN KOREAN_HOLIDAYS THEN <<TRUE, KOREAN_HOLIDAYS[d]>>
    ELSE <<FALSE, "">>

\* a plausible slip: the holiday table is not consulted
is_business_day_weekdays(d) ==
    IF weekday(d) >= Saturday THEN FALSE
    ELSE TRUE

is_business_day(d) ==
    IF weekday(d) >= Saturday THEN FALSE
    ELSE IF d \in DOMAIN KOREAN_HOLIDAYS THEN FALSE
    ELSE TRUE

\* the gate at the head of both main()s: TRUE when the run goes on
PassesGate(d) ==
    LET is_holiday == is_korean_holiday(d)[1] IN
    IF is_holiday THEN FALSE
    ELSE IF ~is_business_day(d) THEN FALSE
    ELSE TRUE

get_weekly_range(d) ==
    LET days_since_friday == (weekday(d) - Friday) % 7
        this_friday == d - days_since_friday
        prev_friday == this_friday - 7
        this_thursday == this_friday - 1
    IN  [start |-> prev_friday, end |-> this_thursday]

\* a plausible slip: the week that begins this Friday, not the one before it
get_date_range_this_week(d) ==
    LET days_since_friday == (weekday(d) - Friday) % 7
        this_friday == d - days_since_friday
    IN  [start |-> this_friday, end |-> this_friday + 6]

get_date_range(d) ==
    LET days_since_friday == (weekday(d) - Friday) % 7
        this_friday == d - days_since_friday
        prev_friday == this_friday - 7
        this_thursday == this_friday - 1
    IN  [start |-> prev_friday, end |-> this_thursday]

\* start_dt.strftime('%Y-%m-%d'): the artifact's name; zero padded, so the
\* names sort as the dates do
PeriodKey(start) == start

\* the days of the runs that start from a channel with a month of history
FetchDays == (MaxDay + 21)..(MaxDay + 23)

\* the start dates an artifact may be named after: those of the windows of the
\* days FirstDay..MaxDay and of the days FetchDays
PeriodKeys ==
    {d \in (FirstDay - 14)..(MaxDay - 7) \cup (MaxDay + 8)..(MaxDay + 16) :
        weekday(d) = Friday}

(***************************************************************************)
(* The channel as the Slack API shows it.                                  *)
(***************************************************************************)
Ids == {m.ts : m \in channel}
MsgOf(id) == CHOOSE m \in channel : m.ts = id
RepliesOf(id) == {r \in channel : r.parent = id}
reply_count(id) == Cardinality(RepliesOf(id))
\* "thread_ts" in msg and msg.get("thread_ts") != msg.get("ts")
HasThreadTs(id) == MsgOf(id).parent # None \/ reply_count(id) > 0
thread_ts(id) == IF MsgOf(id).parent # None THEN MsgOf(id).parent ELSE id
is_thread_reply(id) == HasThreadTs(id) /\ thread_ts(id) # id
msg_bot_id(id) == IF MsgOf(id).author \in Bots THEN MsgOf(id).author ELSE NoBot

\* conversations.history(oldest, latest, inclusive): top-level records only
TopLevel(oldest, latest) ==
    {m.ts : m \in {x \in channel : /\ x.parent = None
                                   /\ oldest <= ToFloat(x.ts)
                                   /\ ToFloat(x.ts) <= latest}}

\* one page of it: without a cursor the first page, otherwise the page at the
\* offset the cursor stands for
HistoryPage(oldest, latest, cursor) ==
    LET all == NewestFirst(TopLevel(oldest, latest))
        off == IF cursor = NoCursor THEN 0 ELSE cursor
        last == IF off + PageLimit < Len(all) THEN off + PageLimit ELSE Len(all)
    IN  [messages |-> SubSeq(all, off + 1, last),
         has_more |-> last < Len(all),
         next_cursor |-> IF last < Len(all) THEN last ELSE NoCursor]

\* conversations.replies(ts): the parent and its replies
Thread(id) == {id} \cup {r.ts : r \in RepliesOf(id)}

(***************************************************************************)
(* The persisted artifacts.                                                *)
(***************************************************************************)
NoFile == [kind |-> "none", weekly |-> <<>>, late |-> <<>>, seen |-> {}]
Broken(kind) == [kind |-> kind, weekly |-> <<>>, late |-> <<>>, seen |-> {}]
NoRun == [kind |-> "none"]

MaxKey(K) == CHOOSE k \in K : \A j \in K : j <= k

\* how an artifact may fail to load: "garbage" is text that is not JSON
\* (json.JSONDecodeError), "unreadable" a file read_text cannot open or read
\* (OSError), "undecodable" bytes that are not UTF-8 (UnicodeDecodeError, a
\* ValueError)
DamageKinds == {"garbage", "unreadable", "undecodable"}

RECURSIVE LoadFrom(_)
\* the loop of load_previous_seen_ts over the files not yet tried, newest
\* first: json.JSONDecodeError is caught, any other exception leaves the loop
LoadFrom(K) ==
    IF K = {} THEN [raised |-> FALSE, seen |-> {}, from |-> {}]
    ELSE LET f == MaxKey(K) IN
         IF files[f].kind \in {"unreadable", "undecodable"}
         THEN [raised |-> TRUE, seen |-> {}, from |-> {}]
         ELSE IF files[f].kind = "garbage" THEN LoadFrom(K \ {f})
         ELSE [raised |-> FALSE, seen |-> files[f].seen, from |-> {f}]

load_previous_seen_ts == LoadFrom({k \in PeriodKeys : files[k] # NoFile})

(***************************************************************************)
(* Reconciliation (main of backup_slack.py, step 4).                       *)
(***************************************************************************)
\* a plausible slip: the window's last day left out
in_range_half_open(id, start_ts, end_ts) ==
    start_ts <= ToFloat(id) /\ ToFloat(id) < end_ts

in_range(id, start_ts, end_ts) ==
    start_ts <= ToFloat(id) /\ ToFloat(id) <= end_ts

is_self_bot(id, bot_id) == bot_id # NoBot /\ msg_bot_id(id) = bot_id

weekly_messages(all_messages, start_ts, end_ts, bot_id) ==
    {id \in all_messages :
        ~is_self_bot(id, bot_id) /\ in_range(id, start_ts, end_ts)}

\* a plausible slip: the previous backup is not consulted
late_without_is_new(all_messages, start_ts, end_ts, prev_seen_ts, bot_id) ==
    {id \in all_messages :
        /\ ~is_self_bot(id, bot_id)
        /\ ~in_range(id, start_ts, end_ts)
        /\ is_thread_reply(id)}

late_thread_replies(all_messages, start_ts, end_ts, prev_seen_ts, bot_id) ==
    {id \in all_messages :
        /\ ~is_self_bot(id, bot_id)
        /\ ~in_range(id, start_ts, end_ts)
        /\ id \notin prev_seen_ts
        /\ is_thread_reply(id)}

all_seen_ts(all_messages) == all_messages

(***************************************************************************)
(* Initial state.                                                          *)
(***************************************************************************)
Init ==
    /\ today = FirstDay
    /\ channel = {}
    /\ files = [k \in PeriodKeys |-> NoFile]
    /\ pc = "idle"
    /\ run = NoRun
    /\ status = "none"
    /\ reports = <<>>
    /\ posted = <<>>
    /\ runs = 0
    /\ faults = 0

(***************************************************************************)
(* The environment: the clock, the channel's users, the file system.       *)
(***************************************************************************)
Tick ==
    /\ pc = "idle"
    /\ today < MaxDay
    /\ today' = today + 1
    /\ UNCHANGED <<channel, files, pc, run, status, reports, posted, runs, faults>>

\* somebody posts a message, or replies in the thread of a top-level message;
\* the author may be this bot (its earlier reports are in the same channel).
\* Slack stamps the message with the time of posting, and no two messages of
\* the channel share a stamp
Post ==
    /\ pc = "idle"
    /\ Cardinality(channel) < MaxPosts
    /\ today <= LastPostDay
    /\ ToStr(today) \notin Ids
    /\ \E parent \in {None} \cup {m.ts : m \in {x \in channel : x.parent = None}},
          v \in Variants :
          channel' = channel \cup
              {[ts |-> ToStr(today), parent |-> parent,
                author |-> v.author, text |-> v.text]}
    /\ UNCHANGED <<today, files, pc, run, status, reports, posted, runs, faults>>

\* an artifact is damaged on disk: cut short (no longer JSON, or no longer
\* UTF-8 when the cut is inside a character) or unreadable
Damage ==
    /\ pc = "idle"
    /\ faults < MaxFaults
    /\ \E k \in PeriodKeys, kind \in DamageKinds :
          /\ files[k].kind = "ok"
          /\ files' = [files EXCEPT ![k] = Broken(kind)]
    /\ faults' = faults + 1
    /\ UNCHANGED <<today, channel, pc, run, status, reports, posted, runs>>

(***************************************************************************)
(* Both scripts: the paginated history fetch.                              *)
(***************************************************************************)
\* the local variables of a run that got past the gate
NewRun(kind, range, oldest, bot_id) ==
    [kind |-> kind, start |-> range.start, end |-> range.end,
     oldest |-> oldest, latest |-> range.end, bot_id |-> bot_id,
     cursor |-> NoCursor, parents |-> <<>>, requests |-> <<>>,
     failed |-> {}, messages |-> <<>>, slack_text |-> <<>>]

\* sys.exit(1), or an exception nobody catches: the process ends at once
Abort(how) ==
    /\ pc' = "idle"
    /\ run' = NoRun
    /\ status' = how

\* a plausible slip: the loop ends after its first page
FetchPageOnce ==
    /\ pc = "history"
    /\ LET result == HistoryPage(run.oldest, run.latest, run.cursor) IN
       /\ run' = [run EXCEPT
                     !.parents = run.parents \o result.messages,
                     !.requests = Append(run.requests, run.cursor)]
       /\ pc' = "threads"
    /\ UNCHANGED <<today, channel, files, status, reports, posted, runs, faults>>

\* one turn of the "while True" loop around conversations_history
FetchPage ==
    /\ pc = "history"
    /\ LET result == HistoryPage(run.oldest, run.latest, run.cursor) IN
       /\ run' = [run EXCEPT
                     !.parents = run.parents \o result.messages,
                     !.requests = Append(run.requests, run.cursor),
                     !.cursor = IF result.has_more THEN result.next_cursor
                                ELSE run.cursor]
       /\ pc' = IF result.has_more THEN "history" ELSE "threads"
    /\ UNCHANGED <<today, channel, files, status, reports, posted, runs, faults>>

\* a plausible slip: the failure is logged like a thread's and the run goes
\* on with the pages it has
FetchPageFailsLogged ==
    /\ pc = "history"
    /\ faults < MaxFaults
    /\ faults' = faults + 1
    /\ pc' = "threads"
    /\ UNCHANGED <<today, channel, files, run, status, reports, posted, runs>>

\* conversations_history raises SlackApiError
FetchPageFails ==
    /\ pc = "history"
    /\ faults < MaxFaults
    /\ faults' = faults + 1
    /\ Abort("exit1")
    /\ UNCHANGED <<today, channel, files, reports, posted, runs>>

(***************************************************************************)
(* backup_slack.py                                                         *)
(***************************************************************************)
BackupStart ==
    /\ pc = "idle"
    /\ runs < MaxRuns
    /\ runs' = runs + 1
    /\ IF ~PassesGate(today)
       THEN /\ status' = "skipped"
            /\ UNCHANGED <<pc, run>>
       ELSE LET range == get_weekly_range(today) IN
            /\ run' = NewRun("backup", range, range.end - WideDays, NoBot)
            /\ pc' = "history"
            /\ status' = "running"
    /\ UNCHANGED <<today, channel, files, reports, posted, faults>>

\* the parents whose thread the second loop of
\* fetch_all_messages_with_threads asks for
ThreadParents(parents) == {p \in Range(parents) : reply_count(p) > 0}

\* all_messages, when the reply fetch of the parents in failed raised
AllMessages(parents, failed) ==
    Range(parents) \cup
    UNION {Thread(p) : p \in ThreadParents(parents) \ failed}

\* a plausible slip: only the reported records are remembered as seen
BackupSeenReported(all_messages, start_ts, end_ts, prev_seen_ts, bot_id) ==
    [kind |-> "ok",
     weekly |-> SortByTs(weekly_messages(all_messages, start_ts, end_ts, bot_id)),
     late |-> SortByTs(late_thread_replies(all_messages, start_ts, end_ts,
                                           prev_seen_ts, bot_id)),
     seen |-> weekly_messages(all_messages, start_ts, end_ts, bot_id) \cup
              late_thread_replies(all_messages, start_ts, end_ts,
                                  prev_seen_ts, bot_id)]

\* the artifact main() writes
Backup(all_messages, start_ts, end_ts, prev_seen_ts, bot_id) ==
    [kind |-> "ok",
     weekly |-> SortByTs(weekly_messages(all_messages, start_ts, end_ts, bot_id)),
     late |-> SortByTs(late_thread_replies(all_messages, start_ts, end_ts,
                                           prev_seen_ts, bot_id)),
     seen |-> all_seen_ts(all_messages)]

\* the rest of main(): thread replies, previous backup, categorize, save
BackupFinish ==
    /\ pc = "threads"
    /\ run.kind = "backup"
    /\ \E failed \in SUBSET ThreadParents(run.parents) :
       /\ faults + Cardinality(failed) <= MaxFaults
       /\ LET all_messages == AllMessages(run.parents, failed)
              prev == load_previous_seen_ts
          IN  IF prev.raised
              THEN /\ Abort("crashed")
                   /\ faults' = faults + Cardinality(failed)
                   /\ UNCHANGED <<files, reports>>
              ELSE \E bot_id \in {SelfBot, NoBot} :
                   /\ bot_id = NoBot => faults + Cardinality(failed) < MaxFaults
                   /\ faults' = faults + Cardinality(failed)
                                 + (IF bot_id = NoBot THEN 1 ELSE 0)
                   /\ files' = [files EXCEPT ![PeriodKey(run.start)] =
                          Backup(all_messages, run.start, run.end, prev.seen, bot_id)]
                   /\ reports' = Append(reports,
                          [key |-> PeriodKey(run.start),
                           start |-> run.start, end |-> run.end,
                           fetched |-> all_messages, failed |-> failed,
                           prev |-> prev.seen, from |-> prev.from,
                           bot_id |-> bot_id,
                           weekly |-> files'[PeriodKey(run.start)].weekly,
                           late |-> files'[PeriodKey(run.start)].late,
                           seen |-> files'[PeriodKey(run.start)].seen])
                   /\ pc' = "idle"
                   /\ run' = NoRun
                   /\ status' = "done"
    /\ UNCHANGED <<today, channel, posted, runs>>

(***************************************************************************)
(* generate_report.py                                                      *)
(***************************************************************************)
\* a plausible slip: the text is tested as it is, not stripped
BackupLinesUnstripped(msgs) ==
    SelectSeq(msgs, LAMBDA id : /\ MsgOf(id).author \notin Bots
                                /\ MsgOf(id).text # <<>>)

\* the lines load_from_backup renders, one per message that is not skipped:
\* no bot's message, no text that is empty once stripped
BackupLines(msgs) ==
    SelectSeq(msgs, LAMBDA id : /\ MsgOf(id).author \notin Bots
                                /\ strip(MsgOf(id).text) # <<>>)

\* (messages_text, success); messages_text is kept as the ids of its lines.
\* json.JSONDecodeError and IOError are caught, any other exception is not
load_from_backup(start) ==
    LET f == files[PeriodKey(start)] IN
    IF f.kind = "undecodable"
    THEN [lines |-> <<>>, success |-> FALSE, raised |-> TRUE]
    ELSE IF f.kind # "ok"
    THEN [lines |-> <<>>, success |-> FALSE, raised |-> FALSE]
    ELSE [lines |-> BackupLines(SortByTs(Range(f.weekly) \cup Range(f.late))),
          success |-> TRUE, raised |-> FALSE]

MinNum(S) == CHOOSE x \in S : \A y \in S \ {x} : ToFloat(x) < ToFloat(y)

RECURSIVE SortByFloat(_)
\* unique.sort(key=lambda m: float(m["ts"]))
SortByFloat(S) ==
    IF S = {} THEN <<>>
    ELSE <<MinNum(S)>> \o SortByFloat(S \ {MinNum(S)})

\* what one parent adds to all_messages in the second loop of
\* fetch_slack_history; its reply fetch raised when it is in failed
Collected(p, start_ts, end_ts, failed) ==
    LET replies_in_range ==
            IF reply_count(p) > 0 /\ p \notin failed
            THEN {r \in Thread(p) \ {p} : in_range(r, start_ts, end_ts)}
            ELSE {}
    IN  (IF in_range(p, start_ts, end_ts) \/ replies_in_range # {} THEN {p} ELSE {})
        \cup replies_in_range

\* a plausible slip: the try is around the loop, so the first reply fetch that
\* raises ends it and the parents after it are not looked at
fetch_slack_history_until_failure(parents, start_ts, end_ts, failed) ==
    LET done == {i \in 1..Len(parents) :
                    \A j \in 1..i : parents[j] \notin failed}
    IN  SortByFloat(UNION {Collected(parents[i], start_ts, end_ts, failed) :
                              i \in done})

fetch_slack_history(parents, start_ts, end_ts, failed) ==
    SortByFloat(UNION {Collected(p, start_ts, end_ts, failed) : p \in Range(parents)})

\* lines, one per message that is not skipped
format_slack_messages(messages, bot_id) ==
    SelectSeq(messages, LAMBDA id : /\ ~is_self_bot(id, bot_id)
                                    /\ strip(MsgOf(id).text) # <<>>)

\* one chat_postMessage call: what was sent, whether Slack took it, the ts
\* Slack gave it (its place in the log), the thread_ts it was sent with, and
\* whether the run had its messages from the backup artifact
Call(what, ok, thread, from_backup) ==
    [what |-> what, ok |-> ok, ts |-> Len(posted) + (IF what = "button" THEN 2 ELSE 1),
     thread_ts |-> thread, from_backup |-> from_backup]

\* post_to_slack: the report, then the feedback button in its thread; how
\* says which chat_postMessage call raised SlackApiError, if any
post_to_slack(what, how, from_backup) ==
    IF how = "main_fails"
    THEN Append(posted, Call(what, FALSE, 0, from_backup))
    ELSE LET report_ts == Len(posted) + 1 IN
         posted \o <<Call(what, TRUE, 0, from_backup),
                     Call("button", how # "button_fails", report_ts, from_backup)>>

\* generate_report_with_gemini, convert_to_slack_mrkdwn, post_to_slack; an
\* exception of the generation call is caught nowhere.  used: the failures
\* this step has met already
GenerateAndPost(used, from_backup) ==
    \E how \in {"ok", "main_fails", "button_fails", "gemini_fails"} :
        /\ how # "ok" => faults + used < MaxFaults
        /\ faults' = faults + used + (IF how = "ok" THEN 0 ELSE 1)
        /\ posted' = IF how = "gemini_fails" THEN posted
                     ELSE post_to_slack("report", how, from_backup)
        /\ pc' = "idle"
        /\ run' = NoRun
        /\ status' = IF how = "gemini_fails" THEN "crashed" ELSE "done"

PostNullReport(used, from_backup) ==
    \E how \in {"ok", "main_fails", "button_fails"} :
        /\ how # "ok" => faults + used < MaxFaults
        /\ faults' = faults + used + (IF how = "ok" THEN 0 ELSE 1)
        /\ posted' = post_to_slack("null", how, from_backup)
        /\ pc' = "idle"
        /\ run' = NoRun
        /\ status' = "done"

\* main() up to the first history request, or to its end when the backup
\* artifact of the period is there
ReportStart ==
    /\ pc = "idle"
    /\ runs < MaxRuns
    /\ runs' = runs + 1
    /\ IF ~PassesGate(today)
       THEN /\ status' = "skipped"
            /\ UNCHANGED <<pc, run, posted, faults>>
       ELSE \E BOT_ID \in {SelfBot, NoBot} :
            LET used == IF BOT_ID = NoBot THEN 1 ELSE 0
                range == get_date_range(today)
                loaded == load_from_backup(range.start)
            IN  /\ faults + used <= MaxFaults
                /\ IF loaded.raised
                   THEN /\ Abort("crashed")
                        /\ faults' = faults + used
                        /\ UNCHANGED posted
                   ELSE IF ~loaded.success
                   THEN /\ run' = NewRun("report", range,
                                         range.start - WideDays, BOT_ID)
                        /\ pc' = "history"
                        /\ status' = "running"
                        /\ faults' = faults + used
                        /\ UNCHANGED posted
                   ELSE IF loaded.lines = <<>>
                        THEN PostNullReport(used, TRUE)
                        ELSE GenerateAndPost(used, TRUE)
    /\ UNCHANGED <<today, channel, files, reports>>

\* the second loop of fetch_slack_history, where the reply fetch of the
\* parents in failed raises SlackApiError, and main() up to the text for the
\* prompt
ReportThreads ==
    /\ pc = "threads"
    /\ run.kind = "report"
    /\ \E failed \in SUBSET ThreadParents(run.parents) :
       LET messages == fetch_slack_history(run.parents, run.start, run.end, failed)
       IN  /\ faults + Cardinality(failed) <= MaxFaults
           /\ faults' = faults + Cardinality(failed)
           /\ run' = [run EXCEPT
                         !.failed = failed,
                         !.messages = messages,
                         !.slack_text = IF Len(messages) = 0 THEN <<>>
                                        ELSE format_slack_messages(messages,
                                                                   run.bot_id)]
    /\ pc' = "collected"
    /\ UNCHANGED <<today, channel, files, status, reports, posted, runs>>

\* the rest of main() after the fallback fetch
ReportFinish ==
    /\ pc = "collected"
    /\ IF Len(run.messages) = 0
       THEN PostNullReport(0, FALSE)
       ELSE GenerateAndPost(0, FALSE)
    /\ UNCHANGED <<today, channel, files, reports, runs>>

Next ==
    \/ Tick
    \/ Post
    \/ Damage
    \/ BackupStart
    \/ FetchPage
    \/ FetchPageFails
    \/ BackupFinish
    \/ ReportStart
    \/ ReportThreads
    \/ ReportFinish

Spec == Init /\ [][Next]_vars

\* the backup script alone, in the same environment
BackupNext ==
    \/ Tick
    \/ Post
    \/ Damage
    \/ BackupStart
    \/ FetchPage
    \/ FetchPageFails
    \/ BackupFinish

BackupSpec == Init /\ [][BackupNext]_vars

(***************************************************************************)
(* Runs that find a channel with a month of history.                       *)
(***************************************************************************)
Blank == <<" ", "\n">>   \* a text of whitespace only

\* messages the channel may hold when the window is range: two threads begun
\* a month ago (30 days before the window's first day, 30 days before its
\* last) with a reply inside the window, a thread of this bot's begun on the
\* window's first day with a reply on its last, a message without text
Pool(range) ==
    {[ts |-> ToStr(range.start - WideDays), parent |-> None,
      author |-> "U1", text |-> Text],
     [ts |-> ToStr(range.end - WideDays), parent |-> None,
      author |-> "U1", text |-> Text],
     [ts |-> ToStr(range.start + 1), parent |-> ToStr(range.start - WideDays),
      author |-> "U1", text |-> Text],
     [ts |-> ToStr(range.start + 2), parent |-> ToStr(range.end - WideDays),
      author |-> "U1", text |-> Text],
     [ts |-> ToStr(range.start + 3), parent |-> None,
      author |-> "U1", text |-> Blank],
     [ts |-> ToStr(range.start), parent |-> None,
      author |-> SelfBot, text |-> Text],
     [ts |-> ToStr(range.end), parent |-> ToStr(range.start),
      author |-> "U1", text |-> Text]}

\* every reply is the reply to a message of the channel
DrawnChannels(range) ==
    {c \in SUBSET Pool(range) :
        \A m \in c : m.parent = None \/ \E q \in c : q.ts = m.parent}

\* a first run on one of FetchDays: no artifact yet, and a channel drawn for
\* the last complete Friday-to-Thursday week
FetchInit ==
    /\ today \in FetchDays
    /\ channel \in DrawnChannels([start |-> today - ((weekday(today) - Friday) % 7) - 7,
                                   end |-> today - ((weekday(today) - Friday) % 7) - 1])
    /\ files = [k \in PeriodKeys |-> NoFile]
    /\ pc = "idle"
    /\ run = NoRun
    /\ status = "none"
    /\ reports = <<>>
    /\ posted = <<>>
    /\ runs = 0
    /\ faults = 0

\* both scripts; nobody posts and no day passes
FetchNext ==
    \/ BackupStart
    \/ FetchPage
    \/ FetchPageFails
    \/ BackupFinish
    \/ ReportStart
    \/ ReportThreads
    \/ ReportFinish

FetchSpec == FetchInit /\ [][FetchNext]_vars

(***************************************************************************)
(* Properties.                                                             *)
(***************************************************************************)
Runs == 1..Len(reports)
InWindow(r, id) == r.start <= ToFloat(id) /\ ToFloat(id) <= r.end
IsReply(id) == MsgOf(id).parent # None
\* the record is this bot's own message and the run knew the bot's id
OwnMessage(r, id) == r.bot_id # NoBot /\ MsgOf(id).author = r.bot_id

\* C2, as stated: in every backup run a fetched record is in weekly_messages
\* exactly when its timestamp lies in [start, end], both ends included.
C2_AsStated ==
    \A i \in Runs : \A id \in reports[i].fetched :
        id \in Range(reports[i].weekly) <=> InWindow(reports[i], id)

\* C2, amended: in every backup run a fetched record is in weekly_messages
\* exactly when its timestamp lies in [start, end], both ends included, and it
\* is not a message of this bot itself; being in the previous seen-set or a
\* thread reply changes nothing.
C2_WeeklyIsWindowMinusOwn ==
    \A i \in Runs : \A id \in reports[i].fetched :
        id \in Range(reports[i].weekly)
            <=> (InWindow(reports[i], id) /\ ~OwnMessage(reports[i], id))

\* a thread reply that the previous backup had seen is in weekly_messages,
\* and so is a record of the window's last day
C2_Witness ==
    \E i \in Runs :
        /\ \E id \in Range(reports[i].weekly) :
               id \in reports[i].prev /\ IsReply(id)
        /\ \E id \in Range(reports[i].weekly) : ToFloat(id) = reports[i].end

\* C3, as stated: a fetched record outside the window is in
\* late_thread_replies exactly when it is new and a thread reply.
C3_AsStated ==
    \A i \in Runs : \A id \in reports[i].fetched :
        ~InWindow(reports[i], id) =>
            (id \in Range(reports[i].late)
                <=> (id \notin reports[i].prev /\ IsReply(id)))

\* C3, amended: a fetched record outside the window is in late_thread_replies
\* exactly when it is new, a thread reply and not a message of this bot
\* itself; no record is in both lists, and both lists hold fetched records
\* only, so every fetched record is in exactly one of in_window,
\* late_outside_window, discarded.
C3_LateIsNewReplyMinusOwn ==
    \A i \in Runs :
        /\ \A id \in reports[i].fetched :
               ~InWindow(reports[i], id) =>
                   (id \in Range(reports[i].late)
                       <=> /\ id \notin reports[i].prev
                           /\ IsReply(id)
                           /\ ~OwnMessage(reports[i], id))
        /\ \A id \in reports[i].fetched :
               InWindow(reports[i], id) => id \notin Range(reports[i].late)
        /\ Range(reports[i].weekly) \cap Range(reports[i].late) = {}
        /\ Range(reports[i].weekly) \cup Range(reports[i].late)
               \subseteq reports[i].fetched

\* one run reports a late reply with nothing seen before, and a run discards
\* a record outside its window because the previous backup had seen it
C3_Witness ==
    /\ \E i \in Runs : reports[i].prev = {} /\ reports[i].late # <<>>
    /\ \E i \in Runs : \E id \in reports[i].fetched \cap reports[i].prev :
           /\ ~InWindow(reports[i], id)
           /\ id \notin Range(reports[i].late)

\* what the Slack API hands a backup run for the window ending at end_ts
\* whose reply fetches fail for the parents in failed
FetchedByRun(end_ts, failed) ==
    LET tops == {m.ts : m \in {x \in channel :
                    /\ x.parent = None
                    /\ end_ts - WideDays <= ToFloat(x.ts)
                    /\ ToFloat(x.ts) <= end_ts}}
    IN  tops \cup {m.ts : m \in {x \in channel :
                    x.parent \in tops /\ x.parent \notin failed}}

\* C4: the seen_ts a backup run persists is exactly the set of ids the run
\* fetched: the top-level records of its fetch window and the replies of
\* every thread whose reply fetch did not fail.
C4_SeenIsFetched ==
    [][Len(reports') > Len(reports) =>
          LET r == reports'[Len(reports')] IN
          /\ r.seen = FetchedByRun(r.end, r.failed)
          /\ files'[r.key].seen = r.seen]_vars

\* a run persists an id it reported nowhere, an id the previous backup had
\* seen, and an id it had not
C4_Witness ==
    \E i \in Runs :
        /\ files[reports[i].key].seen = reports[i].seen
        /\ reports[i].seen \ (Range(reports[i].weekly) \cup Range(reports[i].late)) # {}
        /\ reports[i].seen \cap reports[i].prev # {}
        /\ reports[i].seen \ reports[i].prev # {}

\* C1, as stated: a thread reply that one backup run lists in
\* late_thread_replies is in neither list of any other backup run (stated for
\* the histories in which nothing failed).
C1_LateReportedOnce ==
    faults = 0 =>
    \A i \in Runs : \A j \in Runs \ {i} :
        Range(reports[i].late) \cap
            (Range(reports[j].weekly) \cup Range(reports[j].late)) = {}

\* C5, as stated: an artifact a backup run wrote still has the content that
\* run gave it (stated for the histories in which nothing failed).
C5_ArtifactNeverRewritten ==
    faults = 0 =>
    \A i \in Runs :
        files[reports[i].key].kind = "ok" =>
            /\ files[reports[i].key].weekly = reports[i].weekly
            /\ files[reports[i].key].late = reports[i].late
            /\ files[reports[i].key].seen = reports[i].seen

\* C6, as stated: the baseline of a backup run for period P comes from an
\* artifact of a period strictly before P (stated for the histories in which
\* nothing failed).
C6_BaselineIsEarlier ==
    faults = 0 =>
    \A i \in Runs : \A k \in reports[i].from : k < reports[i].key

\* C7, as stated: load_previous_seen_ts never raises; it returns the seen-set
\* of the newest artifact that parses, and the empty set when there is none.
C7_LoadSkipsWhatDoesNotLoad ==
    LET parsing == {k \in PeriodKeys : files[k].kind = "ok"} IN
    /\ ~load_previous_seen_ts.raised
    /\ load_previous_seen_ts.seen =
           IF parsing = {} THEN {} ELSE files[MaxKey(parsing)].seen
    /\ status # "crashed"

Chronological(list) ==
    \A a \in 1..Len(list) : \A b \in a..Len(list) :
        ToFloat(list[a]) <= ToFloat(list[b])

\* C8, as stated: in both lists of every backup run, a record that comes
\* before another has the earlier (or the same) timestamp (stated for the
\* histories in which nothing failed).
C8_ListsChronological ==
    faults = 0 =>
    \A i \in Runs :
        Chronological(reports[i].weekly) /\ Chronological(reports[i].late)

\* the pages the channel serves for the window of the running script
PagesOf(n) == IF n = 0 THEN 1 ELSE (n + PageLimit - 1) \div PageLimit

\* C9: the history loop asks for the first page without a cursor and for each
\* further page with the cursor the page before returned; it cannot go on
\* beyond the channel's last page, and when it ends it has made one request
\* per page and holds every top-level record of the fetch window once.
C9_PaginationFetchesAll ==
    pc \in {"history", "threads"} =>
        LET all == TopLevel(run.oldest, run.latest)
            n == Cardinality(all)
        IN  /\ \A i \in 1..Len(run.requests) :
                   run.requests[i] =
                       IF i = 1 THEN NoCursor
                       ELSE HistoryPage(run.oldest, run.latest,
                                        run.requests[i - 1]).next_cursor
            /\ pc = "history" => Len(run.requests) < PagesOf(n)
            /\ pc = "threads" =>
                   /\ Len(run.requests) = PagesOf(n)
                   /\ ~HistoryPage(run.oldest, run.latest,
                                   run.requests[Len(run.requests)]).has_more
                   /\ Range(run.parents) = all
                   /\ Len(run.parents) = n

\* the loop has ended after two pages, the second one without continuation
C9_Witness ==
    /\ pc = "threads"
    /\ Len(run.requests) = 2
    /\ Len(run.parents) > PageLimit

\* C10: a step in which a history request fails ends the run with exit
\* status 1; no step of the history loop, and no step that leads into it,
\* writes an artifact or posts a message; a run that ended so is over.
C10_HistoryFailureAborts ==
    /\ [][(pc = "history" /\ faults' # faults) =>
              /\ pc' = "idle"
              /\ run' = NoRun
              /\ status' = "exit1"]_vars
    /\ [][(pc = "history" \/ pc' = "history") =>
              /\ files' = files
              /\ posted' = posted
              /\ reports' = reports]_vars
    /\ [](status = "exit1" => pc = "idle" /\ run = NoRun)

\* a history request failed while an artifact of an earlier run was on disk
C10_Witness ==
    /\ status = "exit1"
    /\ \E k \in PeriodKeys : files[k].kind = "ok"

\* C12: is_business_day(today) is true exactly when today is a Monday to
\* Friday and not a date of the holiday table; is_korean_holiday(today) is
\* (True, the date's label) for a date of the table and (False, "") for any
\* other; a run started on a business day goes on, and a run started on any
\* other day ends at once as skipped: it makes no history request, writes no
\* artifact and posts nothing.
C12_GateIsBusinessDay ==
    /\ [](/\ is_business_day(today) <=>
                (weekday(today) \in 0..4 /\ today \notin DOMAIN KOREAN_HOLIDAYS)
          /\ \A h \in DOMAIN KOREAN_HOLIDAYS :
                 today = h => is_korean_holiday(today) = <<TRUE, KOREAN_HOLIDAYS[h]>>
          /\ (\A h \in DOMAIN KOREAN_HOLIDAYS : today # h)
                 => is_korean_holiday(today) = <<FALSE, "">>)
    /\ [][runs' # runs =>
              IF weekday(today) \in 0..4 /\ today \notin DOMAIN KOREAN_HOLIDAYS
              THEN status' # "skipped"
              ELSE /\ status' = "skipped"
                   /\ pc' = "idle"
                   /\ run' = NoRun
                   /\ files' = files
                   /\ posted' = posted
                   /\ reports' = reports]_vars
    /\ [][pc' = "history" => is_business_day(today)]_vars

\* a run was skipped on a weekday of the holiday table, after an earlier run
\* had got past the gate and saved its artifact
C12_Witness ==
    /\ status = "skipped"
    /\ weekday(today) < Saturday
    /\ is_korean_holiday(today) = <<TRUE, "chuseok">>
    /\ \E k \in PeriodKeys : files[k].kind = "ok"

\* the replies to the parents in failed
ChildrenOf(failed) == {m.ts : m \in {x \in channel : x.parent \in failed}}

\* what the fallback fetch of the running report would have collected had no
\* reply fetch failed
Unfailed == Range(fetch_slack_history(run.parents, run.start, run.end, {}))

\* C11, as stated: after the reply fetch of some threads failed, the fetch
\* result lacks the children of those threads and nothing else.
C11_AsStated ==
    /\ \A i \in Runs :
           /\ reports[i].fetched =
                  FetchedByRun(reports[i].end, {}) \ ChildrenOf(reports[i].failed)
           /\ reports[i].failed \subseteq reports[i].fetched
    /\ pc = "collected" =>
           Range(run.messages) = Unfailed \ ChildrenOf(run.failed)

\* C11, amended: a reply fetch that fails never ends the run: the backup run
\* goes on to write its artifact and the report run to its post; the backup's
\* fetch result lacks the children of the failed threads and nothing else;
\* the report's fallback result lacks the children of the failed threads and
\* those of their parents that lie outside the reporting window, and nothing
\* else (stated for runs during which nobody posts and no file is damaged).
C11_ThreadFailureIsNotFatal ==
    /\ [](\A i \in Runs :
             /\ reports[i].fetched =
                    FetchedByRun(reports[i].end, {}) \ ChildrenOf(reports[i].failed)
             /\ reports[i].failed \subseteq reports[i].fetched
             /\ files[reports[i].key].kind = "ok")
    /\ [](pc = "collected" =>
             Range(run.messages) =
                 Unfailed \ (ChildrenOf(run.failed) \cup
                             {q \in run.failed : ~in_range(q, run.start, run.end)}))
    /\ [][(pc = "threads" /\ run.kind = "backup" /\ ~load_previous_seen_ts.raised) =>
              /\ status' = "done"
              /\ Len(reports') = Len(reports) + 1
              /\ files'[PeriodKey(run.start)].kind = "ok"]_vars
    /\ [][(pc = "threads" /\ run.kind = "report") =>
              pc' = "collected" /\ status' = status]_vars
    /\ [][pc = "collected" =>
              \/ status' = "done" /\ posted' # posted
              \/ status' = "crashed" /\ faults' # faults]_vars

\* the reply fetch of a thread begun before the window has failed in a report
\* run, and the replies of another thread are in the result
C11_Witness ==
    /\ pc = "collected"
    /\ \E q \in run.failed :
           /\ ~in_range(q, run.start, run.end)
           /\ q \in Unfailed
    /\ \E q \in ThreadParents(run.parents) \ run.failed :
           ChildrenOf({q}) \cap Range(run.messages) # {}

RECURSIVE IsSubSeq(_, _)
\* a is b with some of its elements left out
IsSubSeq(a, b) ==
    IF a = <<>> THEN TRUE
    ELSE IF b = <<>> THEN FALSE
    ELSE IF Head(a) = Head(b) THEN IsSubSeq(Tail(a), Tail(b))
    ELSE IsSubSeq(a, Tail(b))

\* lines is a rendering of the list input
Rendered(input, lines) ==
    /\ \A i \in 1..Len(lines) : strip(MsgOf(lines[i]).text) # <<>>
    /\ \A i \in 1..Len(lines) : \A j \in 1..Len(lines) :
           lines[i] = lines[j] => i = j
    /\ IsSubSeq(lines, input)

\* the list the rendering loop of load_from_backup goes through
BackupInput(k) == SortByTs(Range(files[k].weekly) \cup Range(files[k].late))

\* C13: the text format_slack_messages makes of the fallback's messages, and
\* the text load_from_backup makes of an artifact's records, has no line for a
\* record whose text is empty once stripped, at most one line for a record,
\* and its lines in the order of their records in the list.
C13_RenderSkipsBlank ==
    /\ pc = "collected" => Rendered(run.messages, run.slack_text)
    /\ \A k \in PeriodKeys :
           files[k].kind = "ok" => Rendered(BackupInput(k), load_from_backup(k).lines)

\* a report run has rendered an artifact that holds a record of whitespace
\* only and two records with text
C13_Witness ==
    /\ \E i \in 1..Len(posted) : posted[i].from_backup
    /\ \E k \in PeriodKeys :
           /\ files[k].kind = "ok"
           /\ \E id \in Range(BackupInput(k)) : MsgOf(id).text = Blank
           /\ Len(load_from_backup(k).lines) >= 2

\* the threads begun in the 30 days before the window that starts at start_ts
OldParents(start_ts) ==
    {m.ts : m \in {x \in channel : /\ x.parent = None
                                   /\ start_ts - WideDays <= ToFloat(x.ts)
                                   /\ ToFloat(x.ts) < start_ts}}

\* C14 for the report's fallback: the history fetch begins 30 days before the
\* window, and the in-window replies of every thread begun in those 30 days
\* are collected unless the thread's reply fetch failed.
C14_ReportVariant ==
    /\ (pc \in {"history", "threads", "collected"} /\ run.kind = "report") =>
           run.oldest = run.start - WideDays
    /\ pc = "collected" =>
           \A q \in OldParents(run.start) \ run.failed :
               \A id \in ChildrenOf({q}) :
                   in_range(id, run.start, run.end) => id \in Range(run.messages)

\* C14 for the backup: the in-window replies of every thread begun in the 30
\* days before the window are fetched unless the thread's reply fetch failed.
C14_BackupVariant ==
    \A i \in Runs :
        \A q \in OldParents(reports[i].start) \ reports[i].failed :
            \A id \in ChildrenOf({q}) :
                InWindow(reports[i], id) => id \in reports[i].fetched

\* C14, as stated: in each fetch variant the history fetch begins 30 days
\* before the reporting window's first day, and every reply inside the window
\* to a thread begun in those 30 days is in the result unless the thread's
\* reply fetch failed.
C14_AsStated ==
    /\ C14_ReportVariant
    /\ C14_BackupVariant

\* a step in which a report run gets past the gate
ReportRunStarts ==
    /\ pc = "idle"
    /\ runs' # runs
    /\ status' # "skipped"
    /\ ~(pc' = "history" /\ run'.kind = "backup")

\* a step in which a report run comes to its end without being aborted
ReportRunCompletes ==
    /\ status' = "done"
    /\ pc' = "idle"
    /\ \/ pc = "collected"
       \/ pc = "idle" /\ runs' # runs /\ reports' = reports

\* the chat_postMessage calls of one step
NewCalls == SubSeq(posted', Len(posted) + 1, Len(posted'))

\* C15, first part: a report run that gets past the gate goes into the Slack
\* history fetch exactly when the artifact of its period is not there or does
\* not load.
C15_FallbackIffNoArtifact ==
    [][ReportRunStarts =>
          (pc' = "history"
              <=> files[PeriodKey(get_date_range(today).start)].kind # "ok")]_vars

\* C15, second part: a report run that is not aborted makes one main post
\* call, with the generated report or with the null report; the feedback
\* button is sent only after the main call succeeded, with the ts of the main
\* message as its thread_ts; nothing else is ever posted.
C15_OneMainPostThenButton ==
    /\ [][ReportRunCompletes => posted' # posted]_vars
    /\ [][posted' # posted =>
              /\ SubSeq(posted', 1, Len(posted)) = posted
              /\ Len(NewCalls) \in {1, 2}
              /\ NewCalls[1].what \in {"report", "null"}
              /\ NewCalls[1].thread_ts = 0
              /\ Len(NewCalls) = 2 =>
                     /\ NewCalls[1].ok
                     /\ NewCalls[2].what = "button"
                     /\ NewCalls[2].thread_ts = NewCalls[1].ts]_vars

\* C15, as stated: in a report run that gets past the gate the fallback fetch
\* is made iff the period's artifact is missing or cannot be parsed, and a run
\* that is not aborted makes exactly one main post call, the button following
\* only a main post that succeeded, in its thread.
C15_AsStated ==
    /\ C15_FallbackIffNoArtifact
    /\ C15_OneMainPostThenButton

\* C16: on every day get_weekly_range and get_date_range give the same
\* window, from a Friday to the Thursday six days later, which is over before
\* today begins; the next day has the same period key unless it is a Friday;
\* and a report run goes into the fallback fetch only if the file a backup run
\* of the same day would write is not there or does not load.
C16_SameWindowSameKey ==
    /\ [](LET w == get_weekly_range(today)
              r == get_date_range(today)
          IN  /\ w = r
              /\ weekday(w.start) = Friday
              /\ w.end = w.start + 6
              /\ w.end < today
              /\ PeriodKey(r.start) = PeriodKey(w.start))
    /\ [][today' # today =>
              (PeriodKey(get_date_range(today').start)
                   = PeriodKey(get_weekly_range(today).start)
               <=> weekday(today') # Friday)]_vars
    /\ [][(pc' = "history" /\ run'.kind = "report" /\ pc = "idle") =>
              files[PeriodKey(get_weekly_range(today).start)].kind # "ok"]_vars

\* a report run has taken its messages from the artifact of a backup run, and
\* on the Thursday that ends the week the period key is still that artifact's
C16_Witness ==
    /\ \E i \in 1..Len(posted) : posted[i].from_backup /\ posted[i].what = "report"
    /\ weekday(today) = Friday - 1
    /\ \E i \in Runs :
           /\ reports[i].key = PeriodKey(get_date_range(today).start)
           /\ files[reports[i].key].kind = "ok"

====
